---- MODULE Spec2Model ----
(***************************************************************************)
(* Offline export pipeline of the video generator modal                    *)
(* (src/components/VideoGeneratorModal.tsx): the component state that      *)
(* carries an export job, the encoder handle and its virtual filesystem,   *)
(* the refs the render code reads its settings from, and every             *)
(* renderOffline call in flight.  One action per handler or per            *)
(* continuation between two awaits.                                        *)
(***************************************************************************)
EXTENDS Integers, Sequences, FiniteSets, TLC

\* ---------------------------------------------------------------- bounds
\* Number of startRecording calls in one behaviour.
MaxExports == 2
\* Number of frames of the decoded track (Math.ceil(duration * fps)).
MaxFrames == 2
\* Number of UI edits of config / effects / intensities / text layers.
MaxEdits == 1

\* ------------------------------------------------------- program constants
\* frameIndex % 10 === 0 gates the progress report of the frame loop.
ProgressEvery == 10
\* 15 + Math.round((frameIndex / totalFrames) * 55)
CaptureBase == 15
CaptureSpan == 55

Runs == 1..MaxExports
SettingKinds == {"config", "effects", "intensities", "textLayers"}
\* alert('Video rendering failed. Please try again.')
GenericAlert == "Video rendering failed. Please try again."
\* throw new Error('FFmpeg produced an empty output file')
EmptyOutputError == "FFmpeg produced an empty output file"
\* ffmpeg.writeFile (frames, audio), ffmpeg.exec, ffmpeg.readFile
EncoderOps == {"writeFrame", "writeAudio", "exec", "readFile"}
\* values Math.round(progress * 100) the encoder's progress event can carry
ProgressValues == {0, 100}
\* What the preload leaves in bgImage / bgVideo / albumImage for the frame
\* body to draw: "loaded" - every requested resource loaded; "empty" - a load
\* failed and its variable is null (video onerror, loadImageAsDataUrl
\* returned null); "broken" - loadImageAsDataUrl returned a data URL, the
\* Image fired onerror, and the variable keeps the element that failed.
PreloadResults == {"loaded", "empty", "broken"}

VARIABLES
  isExporting,     \* useState(false)
  exportProgress,  \* useState(0)
  exportStage,     \* useState('idle'): "idle" | "capturing" | "encoding"
  ffmpegRef,       \* ffmpegRef.current !== null
  ffmpegLoaded,    \* useState(false)
  ffmpegLoading,   \* useState(false)
  cbStage,         \* exportStage as captured by the progress callback's closure
  refs,            \* configRef / effectsRef / intensitiesRef / textLayersRef (.current)
  edits,           \* number of UI edits so far
  fsFrames,        \* frameNNNNNN.jpg files present in the encoder's filesystem
  fsAudio,         \* audio.mp3 present
  fsOutput,        \* output.mp4: "absent" | "empty" | "nonempty"
  encProgress,     \* last progress value the encoder emitted
  nextRun,         \* number of renderOffline calls started so far
  run,             \* per renderOffline call: its locals and position
  lastExportWrite, \* last value written to exportProgress by startRecording,
                   \* renderOffline or the progress callback
  frame,           \* the canvas frame last drawn: its inputs, the path that
                   \* drew it (renderLoop or the body of renderOffline's
                   \* loop) and the canvas operations it executed
  textLayers,      \* useState<TextLayer[]>: the text layer collection
  textLayersRef,   \* textLayersRef.current
  now,             \* Date.now(), in ticks of one millisecond
  added,           \* number of addTextLayer calls so far
  analysis,        \* the decoded track, the frames analyzeAudioOffline made of
                   \* it, and the frame loop reading them
  jobs,            \* every ActiveJob object created so far, by job id
  activeJobs,      \* the keys of the activeJobs map (its values are in jobs)
  jobQueue,        \* const jobQueue: string[]
  isProcessingQueue, \* let isProcessingQueue = false
  loops,           \* the processQueue calls, by the job whose submission made
                   \* the call: where the call is and the job it processes
  started,         \* job ids in the order processGeneration was called
  answer           \* what the last getJobStatus call returned

vars == <<isExporting, exportProgress, exportStage, ffmpegRef, ffmpegLoaded,
          ffmpegLoading, cbStage, refs, edits, fsFrames, fsAudio, fsOutput,
          encProgress, nextRun, run, lastExportWrite, frame,
          textLayers, textLayersRef, now, added, analysis,
          jobs, activeJobs, jobQueue, isProcessingQueue, loops, started,
          answer>>

\* The generation job queue of the server.
serverVars == <<jobs, activeJobs, jobQueue, isProcessingQueue, loops, started,
                answer>>

\* The text layer panel.
textVars == <<textLayers, textLayersRef, now, added>>
\* The preview canvas, the text layer panel and the audio analysis.
paneVars == <<frame, textLayers, textLayersRef, now, added, analysis,
              jobs, activeJobs, jobQueue, isProcessingQueue, loops, started,
              answer>>

\* The state of the export job.
exportVars == <<isExporting, exportProgress, exportStage, ffmpegRef,
                ffmpegLoaded, ffmpegLoading, cbStage, refs, edits, fsFrames,
                fsAudio, fsOutput, encProgress, nextRun, run, lastExportWrite>>

uiVars == <<isExporting, exportProgress, exportStage>>
ffVars == <<ffmpegRef, ffmpegLoaded, ffmpegLoading, cbStage>>
fsVars == <<fsFrames, fsAudio, fsOutput>>

\* const totalFrames = Math.ceil(duration * fps)
totalFrames == MaxFrames

\* Positions of a renderOffline call at which an export is in flight.
ActivePcs == {"preload", "loadVideo", "fetch", "decode", "loop", "wFrame", "wAudio", "exec",
              "read", "delFrames", "delAudio", "delOutput"}

InFlight(r) == run[r].pc \in ActivePcs

NoRun == [pc |-> "none", frameIndex |-> 0, rendered |-> 0, delIndex |-> 0,
          atStart |-> [k \in SettingKinds |-> 0],
          current |-> [k \in SettingKinds |-> 0],
          used |-> [k \in SettingKinds |-> 0],
          encodeResult |-> -1, outputData |-> "none", downloaded |-> FALSE,
          delAttempted |-> {}, delFailed |-> FALSE,
          err |-> "none", alerted |-> "none",
          progressOf |-> -1, log |-> <<>>, slot |-> "none"]

\* Entries of a call's log: a frame drawn, an encoder request issued, an
\* encoder request settled (resolved or rejected).
Ev(ev, op, i) == [ev |-> ev, op |-> op, i |-> i]

\* The call has returned or thrown: currentConfig, currentEffects,
\* currentIntensities, currentTexts and the preloaded elements are gone with
\* its frame.
Returned(rec) == [rec EXCEPT !.atStart = NoRun.atStart,
                             !.current = NoRun.current,
                             !.used = NoRun.used,
                             !.slot = NoRun.slot]

\* Math.round(x) for x = 55 * frameIndex / totalFrames
FrameProgress(i, n) == CaptureBase + ((2 * i * CaptureSpan + n) \div (2 * n))

\* The two layers installed when the song is set (useEffect [song]): the
\* title and the style.  n is the rank of the layer in order of insertion,
\* text stands for the editable fields (text, size, color, x, y).
DefaultTexts == <<[id |-> "1", n |-> 1, text |-> 0],
                  [id |-> "2", n |-> 2, text |-> 0]>>

TextInit ==
  /\ textLayers = DefaultTexts
  /\ textLayersRef = DefaultTexts
  /\ now = 0
  /\ added = 0

\* No track decoded yet.
NoAnalysis == [pc |-> "none", buf |-> <<>>, fps |-> 0, count |-> 0, total |-> 0,
               frameIndex |-> 0, dataArray |-> <<>>, outside |-> FALSE,
               bassLevel |-> 0, normBass |-> 0, pulse |-> 0,
               live |-> [dataArray |-> <<>>, normBass |-> 0, pulse |-> 0]]

\* Number of generateMusicViaAPI calls in one behaviour.
MaxJobs == 3
\* Job ids, in the order they are handed out.
Jobs == 1..MaxJobs

\* No job submitted, the queue empty, no processQueue call made.
NoJob == [status |-> "none", queuePosition |-> 0, error |-> "none"]
NoLoop == [pc |-> "none", job |-> 0]
NoAnswer == [id |-> 0, status |-> "none", error |-> "none", job |-> "none"]

ServerInit ==
  /\ jobs = [j \in Jobs |-> NoJob]
  /\ activeJobs = {}
  /\ jobQueue = <<>>
  /\ isProcessingQueue = FALSE
  /\ loops = [j \in Jobs |-> NoLoop]
  /\ started = <<>>
  /\ answer = NoAnswer

\* No frame drawn yet.
NoFrame == [path |-> "none", inp |-> <<>>, ops |-> <<>>]

ExportInit ==
  /\ isExporting = FALSE
  /\ exportProgress = 0
  /\ exportStage = "idle"
  /\ ffmpegRef = FALSE
  /\ ffmpegLoaded = FALSE
  /\ ffmpegLoading = FALSE
  /\ cbStage = "idle"
  /\ refs = [k \in SettingKinds |-> 0]
  /\ edits = 0
  /\ fsFrames = {}
  /\ fsAudio = FALSE
  /\ fsOutput = "absent"
  /\ encProgress = 0
  /\ nextRun = 0
  /\ run = [r \in Runs |-> NoRun]
  /\ lastExportWrite = 0

Init ==
  /\ ExportInit
  /\ TextInit
  /\ ServerInit
  /\ frame = NoFrame
  /\ analysis = NoAnalysis

\* ------------------------------------------------------------ loadFFmpeg
\* "Load Now" is rendered while !ffmpegLoaded && !ffmpegLoading; the handler
\* returns at once when ffmpegRef.current || ffmpegLoading.  The progress
\* callback registered here closes over the exportStage of this render.
LoadFFmpeg ==
  /\ ~ffmpegLoaded /\ ~ffmpegLoading
  /\ ~ffmpegRef
  /\ ffmpegLoading' = TRUE
  /\ cbStage' = exportStage
  /\ UNCHANGED <<ffmpegRef, ffmpegLoaded, uiVars, refs, edits, fsVars,
                 encProgress, nextRun, run, lastExportWrite>>
  /\ UNCHANGED paneVars

\* await ffmpeg.load(...) resolved
LoadFFmpegDone ==
  /\ ffmpegLoading /\ ~ffmpegRef
  /\ ffmpegRef' = TRUE
  /\ ffmpegLoaded' = TRUE
  /\ ffmpegLoading' = FALSE
  /\ UNCHANGED <<cbStage, uiVars, refs, edits, fsVars, encProgress, nextRun,
                 run, lastExportWrite>>
  /\ UNCHANGED paneVars

\* await ffmpeg.load(...) rejected: alert, finally setFfmpegLoading(false)
LoadFFmpegFails ==
  /\ ffmpegLoading /\ ~ffmpegRef
  /\ ffmpegLoading' = FALSE
  /\ UNCHANGED <<cbStage, ffmpegRef, ffmpegLoaded, uiVars, refs, edits, fsVars,
                 encProgress, nextRun, run, lastExportWrite>>
  /\ UNCHANGED paneVars

\* ------------------------------------------- useEffect(..., [isOpen, song])
\* The initialisation effect re-runs whenever isOpen or song changes (with
\* the modal open and a song set): it resets the export state and nothing
\* else; a renderOffline call in flight is not touched.
InitEffect ==
  /\ isExporting' = FALSE
  /\ exportProgress' = 0
  /\ exportStage' = "idle"
  /\ UNCHANGED <<ffVars, refs, edits, fsVars, encProgress, nextRun, run,
                 lastExportWrite>>
  /\ UNCHANGED paneVars

\* --------------------------------------------------------------- UI edits
\* setConfig / setEffects / setIntensities / setTextLayers install a new
\* object; the useEffect of lines 214-217 stores it in the matching ref.
\* No control of the panel is disabled while exporting.
EditSetting(k) ==
  /\ edits < MaxEdits
  /\ edits' = edits + 1
  /\ refs' = [refs EXCEPT ![k] = 1 - @]
  /\ UNCHANGED <<uiVars, ffVars, fsVars, encProgress, nextRun, run,
                 lastExportWrite>>
  /\ UNCHANGED paneVars

\* ---------------------------------------------------------- startRecording
\* The Export button is rendered while !isExporting and is disabled while
\* !ffmpegLoaded, so the handler always finds ffmpegRef.current set and the
\* "await loadFFmpeg()" branch is never taken.  setIsExporting(true),
\* setExportStage('capturing'), setExportProgress(0), then renderOffline runs
\* synchronously up to its first await: either getContext('2d') gave null and
\* it returns (ctxOk = FALSE), or it writes setExportProgress(1) and starts
\* preloading.
StartRecording(ctxOk) ==
  /\ ~isExporting /\ ffmpegLoaded
  /\ ffmpegRef
  /\ nextRun < MaxExports
  /\ nextRun' = nextRun + 1
  /\ isExporting' = TRUE
  /\ exportStage' = "capturing"
  /\ exportProgress' = IF ctxOk THEN 1 ELSE 0
  /\ lastExportWrite' = IF ctxOk THEN 1 ELSE 0
  /\ run' = [run EXCEPT ![nextRun + 1] =
               [NoRun EXCEPT !.pc = IF ctxOk THEN "preload" ELSE "returned",
                             !.atStart = IF ctxOk THEN refs ELSE NoRun.atStart,
                             !.progressOf = IF ctxOk THEN 1 ELSE 0]]
  /\ UNCHANGED <<ffVars, refs, edits, fsVars, encProgress>>
  /\ UNCHANGED paneVars

\* A throw inside renderOffline reaches the catch of startRecording:
\* console.error(error), alert(GenericAlert), setIsExporting(false),
\* setExportStage('idle').  No deleteFile call is made on this path.
Throw(r, e) ==
  /\ isExporting' = FALSE
  /\ exportStage' = "idle"
  /\ run' = [run EXCEPT ![r] = [Returned(@) EXCEPT
               !.pc = "failed", !.err = e, !.alerted = GenericAlert,
               !.log = IF e \in EncoderOps
                         THEN Append(@, Ev("settled", e, run[r].frameIndex))
                         ELSE @]]
  /\ UNCHANGED <<exportProgress, lastExportWrite>>

\* Background and album art are preloaded; every promise awaited there
\* resolves, on load and on error alike, leaving res in the variables the
\* frame body draws from.  Then setExportProgress(2) and the audio fetch
\* starts.
PreloadDone(r, res) ==
  /\ run[r].pc = "preload"
  /\ res \in PreloadResults
  /\ exportProgress' = 2
  /\ lastExportWrite' = 2
  /\ run' = [run EXCEPT ![r] = [@ EXCEPT !.pc = "fetch", !.progressOf = 2,
                                         !.slot = res]]
  /\ UNCHANGED <<isExporting, exportStage, ffVars, refs, edits, fsVars,
                 encProgress, nextRun>>
  /\ UNCHANGED paneVars

\* fetch(audioUrl) and arrayBuffer() resolved: setExportProgress(5), then
\* decodeAudioData is awaited.
\* backgroundType === 'video' && videoUrl: a video element is created,
\* bgVideo.load() is called and renderOffline awaits a promise that only
\* onloadeddata and onerror resolve.
PreloadVideo(r) ==
  /\ run[r].pc = "preload"
  /\ run' = [run EXCEPT ![r] = [@ EXCEPT !.pc = "loadVideo"]]
  /\ UNCHANGED <<uiVars, ffVars, refs, edits, fsVars, encProgress, nextRun,
                 lastExportWrite>>
  /\ UNCHANGED paneVars

\* loadeddata or error fires on the video element; the album art is loaded as
\* in PreloadDone, then setExportProgress(2) and the audio fetch starts.
VideoSettled(r, res) ==
  /\ run[r].pc = "loadVideo"
  /\ res \in PreloadResults
  /\ exportProgress' = 2
  /\ lastExportWrite' = 2
  /\ run' = [run EXCEPT ![r] = [@ EXCEPT !.pc = "fetch", !.progressOf = 2,
                                         !.slot = res]]
  /\ UNCHANGED <<isExporting, exportStage, ffVars, refs, edits, fsVars,
                 encProgress, nextRun>>
  /\ UNCHANGED paneVars

FetchDone(r) ==
  /\ run[r].pc = "fetch"
  /\ exportProgress' = 5
  /\ lastExportWrite' = 5
  /\ run' = [run EXCEPT ![r] = [@ EXCEPT !.pc = "decode", !.progressOf = 5]]
  /\ UNCHANGED <<isExporting, exportStage, ffVars, refs, edits, fsVars,
                 encProgress, nextRun>>
  /\ UNCHANGED paneVars

FetchFails(r) ==
  /\ run[r].pc = "fetch"
  /\ Throw(r, "fetch")
  /\ UNCHANGED <<ffVars, refs, edits, fsVars, encProgress, nextRun>>
  /\ UNCHANGED paneVars

\* decodeAudioData resolved: setExportProgress(10); analyzeAudioOffline has no
\* await of its own, so awaiting it only yields a microtask;
\* setExportProgress(15); the four refs are read into currentConfig,
\* currentEffects, currentIntensities, currentTexts; the frame loop begins.
DecodeDone(r) ==
  /\ run[r].pc = "decode"
  /\ exportProgress' = 15
  /\ lastExportWrite' = 15
  /\ run' = [run EXCEPT ![r] = [@ EXCEPT !.pc = "loop", !.current = refs,
                                         !.progressOf = 15]]
  /\ UNCHANGED <<isExporting, exportStage, ffVars, refs, edits, fsVars,
                 encProgress, nextRun>>
  /\ UNCHANGED paneVars

\* Variant: the rejection is swallowed and the loop runs on an empty analysis.
DecodeFailsSilently(r) ==
  /\ run[r].pc = "decode"
  /\ exportProgress' = 15
  /\ lastExportWrite' = 15
  /\ run' = [run EXCEPT ![r] = [@ EXCEPT !.pc = "loop", !.current = refs,
                                         !.err = "decode", !.progressOf = 15]]
  /\ UNCHANGED <<isExporting, exportStage, ffVars, refs, edits, fsVars,
                 encProgress, nextRun>>
  /\ UNCHANGED paneVars

\* decodeAudioData rejected
DecodeFails(r) ==
  /\ run[r].pc = "decode"
  /\ Throw(r, "decode")
  /\ UNCHANGED <<ffVars, refs, edits, fsVars, encProgress, nextRun>>
  /\ UNCHANGED paneVars

\* Variant: the frame write is not awaited, the next frame is drawn while the
\* previous write is still pending.
RenderFrameNoAwait(r) ==
  /\ run[r].pc \in {"loop", "wFrame"}
  /\ run[r].rendered < totalFrames
  /\ run[r].slot # "broken"
  /\ run' = [run EXCEPT ![r] = [@ EXCEPT
               !.pc = "wFrame",
               !.rendered = @ + 1,
               !.used = run[r].current,
               !.log = @ \o <<Ev("render", "frame", run[r].rendered),
                              Ev("issued", "writeFrame", run[r].rendered)>>]]
  /\ UNCHANGED <<uiVars, ffVars, refs, edits, fsVars, encProgress, nextRun,
                 lastExportWrite>>
  /\ UNCHANGED paneVars

\* Variant: the frame body reads the refs instead of the loop's snapshot.
RenderFrameLiveRefs(r) ==
  /\ run[r].pc = "loop"
  /\ run[r].frameIndex < totalFrames
  /\ run[r].slot # "broken"
  /\ run' = [run EXCEPT ![r] = [@ EXCEPT
               !.pc = "wFrame",
               !.rendered = @ + 1,
               !.used = refs,
               !.log = @ \o <<Ev("render", "frame", run[r].rendered),
                              Ev("issued", "writeFrame", run[r].rendered)>>]]
  /\ UNCHANGED <<uiVars, ffVars, refs, edits, fsVars, encProgress, nextRun,
                 lastExportWrite>>
  /\ UNCHANGED paneVars

\* One iteration of the frame loop up to its await: the frame is drawn from
\* the values held in currentConfig/...; canvas.toDataURL; ffmpeg.writeFile of
\* frame<frameIndex>.jpg is issued and awaited.
RenderFrame(r) ==
  /\ run[r].pc = "loop"
  /\ run[r].frameIndex < totalFrames
  /\ run[r].slot # "broken"
  /\ run' = [run EXCEPT ![r] = [@ EXCEPT
               !.pc = "wFrame",
               !.rendered = @ + 1,
               !.used = run[r].current,
               !.log = @ \o <<Ev("render", "frame", run[r].rendered),
                              Ev("issued", "writeFrame", run[r].rendered)>>]]
  /\ UNCHANGED <<uiVars, ffVars, refs, edits, fsVars, encProgress, nextRun,
                 lastExportWrite>>
  /\ UNCHANGED paneVars

\* ctx.drawImage(bgSource, ...) / ctx.drawImage(albumImage, ...) is handed an
\* image element in the broken state and throws InvalidStateError; the frame
\* body has no try around it.
DrawFails(r) ==
  /\ run[r].pc = "loop"
  /\ run[r].frameIndex < totalFrames
  /\ run[r].slot = "broken"
  /\ Throw(r, "drawImage")
  /\ UNCHANGED <<ffVars, refs, edits, fsVars, encProgress, nextRun>>
  /\ UNCHANGED paneVars

\* The frame write resolved.  Progress is reported every ProgressEvery-th
\* frame; frameIndex++; when the loop is over: setExportStage('encoding'),
\* setExportProgress(70) and the write of audio.mp3 is issued.
FrameWritten(r) ==
  LET i == run[r].frameIndex
      reports == (i % ProgressEvery = 0)
      last == (i + 1 = totalFrames)
      v == IF last THEN 70
           ELSE IF reports THEN FrameProgress(i, totalFrames)
           ELSE run[r].progressOf
  IN
  /\ run[r].pc = "wFrame"
  /\ fsFrames' = fsFrames \cup {i}
  /\ IF last \/ reports
       THEN /\ exportProgress' = v
            /\ lastExportWrite' = v
       ELSE UNCHANGED <<exportProgress, lastExportWrite>>
  /\ exportStage' = IF last THEN "encoding" ELSE exportStage
  /\ run' = [run EXCEPT ![r] = [@ EXCEPT
               !.pc = IF last THEN "wAudio" ELSE "loop",
               !.frameIndex = i + 1,
               !.progressOf = v,
               !.log = IF last
                         THEN @ \o <<Ev("settled", "writeFrame", i),
                                     Ev("issued", "writeAudio", i + 1)>>
                         ELSE Append(@, Ev("settled", "writeFrame", i))]]
  /\ UNCHANGED <<isExporting, ffVars, refs, edits, fsAudio, fsOutput,
                 encProgress, nextRun>>
  /\ UNCHANGED paneVars

FrameWriteFails(r) ==
  /\ run[r].pc = "wFrame"
  /\ Throw(r, "writeFrame")
  /\ UNCHANGED <<ffVars, refs, edits, fsVars, encProgress, nextRun>>
  /\ UNCHANGED paneVars

\* writeFile('audio.mp3') resolved: setExportProgress(75), ffmpeg.exec issued.
AudioWritten(r) ==
  /\ run[r].pc = "wAudio"
  /\ fsAudio' = TRUE
  /\ exportProgress' = 75
  /\ lastExportWrite' = 75
  /\ encProgress' = 0
  /\ run' = [run EXCEPT ![r] = [@ EXCEPT
               !.pc = "exec", !.progressOf = 75,
               !.log = @ \o <<Ev("settled", "writeAudio", totalFrames),
                              Ev("issued", "exec", totalFrames)>>]]
  /\ UNCHANGED <<isExporting, exportStage, ffVars, refs, edits, fsFrames,
                 fsOutput, nextRun>>
  /\ UNCHANGED paneVars

AudioWriteFails(r) ==
  /\ run[r].pc = "wAudio"
  /\ Throw(r, "writeAudio")
  /\ UNCHANGED <<ffVars, refs, edits, fsVars, encProgress, nextRun>>
  /\ UNCHANGED paneVars

\* ffmpeg.on('progress', ...) fires while exec runs:
\*   if (exportStage === 'encoding') setExportProgress(Math.round(progress*100))
\* where exportStage is the value the closure captured in loadFFmpeg.
\* Variant: the callback sees the exportStage of the latest render.
CallbackStageLive == exportStage

CallbackStage == cbStage

EncoderProgress(r, p) ==
  /\ run[r].pc = "exec"
  /\ p # encProgress
  /\ encProgress' = p
  /\ IF CallbackStage = "encoding"
       THEN /\ exportProgress' = p
            /\ lastExportWrite' = p
            /\ run' = [run EXCEPT ![r] = [@ EXCEPT !.progressOf = p]]
       ELSE UNCHANGED <<exportProgress, lastExportWrite, run>>
  /\ UNCHANGED <<isExporting, exportStage, ffVars, refs, edits, fsVars, nextRun>>
  /\ UNCHANGED paneVars

\* ffmpeg.exec resolved with ret; the encoder may have created, truncated or
\* left alone output.mp4 (out = "keep" leaves the file as it was).  The result
\* is logged, never tested.  setExportProgress(95), readFile issued.
ExecOutcomes == {<<0, "nonempty">>, <<0, "empty">>,
                 <<1, "keep">>, <<1, "empty">>, <<1, "nonempty">>}

ExecReturns(r, ret, out) ==
  /\ run[r].pc = "exec"
  /\ <<ret, out>> \in ExecOutcomes
  /\ fsOutput' = IF out = "keep" THEN fsOutput ELSE out
  /\ exportProgress' = 95
  /\ lastExportWrite' = 95
  /\ encProgress' = 0
  /\ run' = [run EXCEPT ![r] = [@ EXCEPT
               !.pc = "read", !.encodeResult = ret, !.progressOf = 95,
               !.log = @ \o <<Ev("settled", "exec", totalFrames),
                              Ev("issued", "readFile", totalFrames)>>]]
  /\ UNCHANGED <<isExporting, exportStage, ffVars, refs, edits, fsFrames,
                 fsAudio, nextRun>>
  /\ UNCHANGED paneVars

\* ffmpeg.exec rejected
ExecThrows(r) ==
  /\ run[r].pc = "exec"
  /\ Throw(r, "exec")
  /\ encProgress' = 0
  /\ UNCHANGED <<ffVars, refs, edits, fsVars, nextRun>>
  /\ UNCHANGED paneVars

\* Variant: the length of the data read back is not tested.
ReadOutputNoCheck(r) ==
  /\ run[r].pc = "read"
  /\ IF fsOutput = "absent"
       THEN Throw(r, "readFile")
       ELSE /\ exportProgress' = 98
            /\ lastExportWrite' = 98
            /\ run' = [run EXCEPT ![r] = [@ EXCEPT
                         !.pc = "delFrames",
                         !.outputData = fsOutput,
                         !.downloaded = TRUE,
                         !.progressOf = 98,
                         !.log = Append(@, Ev("settled", "readFile", totalFrames))]]
            /\ UNCHANGED <<isExporting, exportStage>>
  /\ UNCHANGED <<ffVars, refs, edits, fsVars, encProgress, nextRun>>
  /\ UNCHANGED paneVars

\* readFile('output.mp4') settled.  A missing file rejects; an empty one makes
\* renderOffline throw EmptyOutputError; otherwise the blob is handed to the
\* download anchor (a.click()), setExportProgress(98) and cleanup begins.
ReadOutput(r) ==
  /\ run[r].pc = "read"
  /\ CASE fsOutput = "absent" ->
            /\ Throw(r, "readFile")
       [] fsOutput = "empty" ->
            /\ isExporting' = FALSE
            /\ exportStage' = "idle"
            /\ run' = [run EXCEPT ![r] = [Returned(@) EXCEPT
                         !.pc = "failed",
                         !.outputData = "empty",
                         !.err = EmptyOutputError,
                         !.alerted = GenericAlert,
                         !.log = Append(@, Ev("settled", "readFile", totalFrames))]]
            /\ UNCHANGED <<exportProgress, lastExportWrite>>
       [] fsOutput = "nonempty" ->
            /\ exportProgress' = 98
            /\ lastExportWrite' = 98
            /\ run' = [run EXCEPT ![r] = [@ EXCEPT
                         !.pc = "delFrames",
                         !.outputData = "nonempty",
                         !.downloaded = TRUE,
                         !.progressOf = 98,
                         !.log = Append(@, Ev("settled", "readFile", totalFrames))]]
            /\ UNCHANGED <<isExporting, exportStage>>
  /\ UNCHANGED <<ffVars, refs, edits, fsVars, encProgress, nextRun>>
  /\ UNCHANGED paneVars

\* Variant: a deletion that rejects is rethrown.
DeleteFrameEscalates(r, ok) ==
  LET i == run[r].delIndex IN
  /\ run[r].pc = "delFrames"
  /\ IF ok
       THEN /\ fsFrames' = fsFrames \ {i}
            /\ run' = [run EXCEPT ![r] = [@ EXCEPT
                         !.pc = IF i + 1 = totalFrames THEN "delAudio" ELSE "delFrames",
                         !.delIndex = i + 1,
                         !.delAttempted = @ \cup {<<"frame", i>>}]]
            /\ UNCHANGED <<uiVars, lastExportWrite>>
       ELSE /\ isExporting' = FALSE
            /\ exportStage' = "idle"
            /\ run' = [run EXCEPT ![r] = [Returned(@) EXCEPT
                         !.pc = "failed", !.err = "deleteFile",
                         !.alerted = GenericAlert,
                         !.delAttempted = @ \cup {<<"frame", i>>},
                         !.delFailed = TRUE]]
            /\ UNCHANGED <<fsFrames, exportProgress, lastExportWrite>>
  /\ UNCHANGED <<ffVars, refs, edits, fsAudio, fsOutput, encProgress, nextRun>>
  /\ UNCHANGED paneVars

\* for (i...) await ffmpeg.deleteFile(frame<i>.jpg).catch(() => {})
\* ok = FALSE is a deletion that rejects; the rejection is swallowed.
DeleteFrame(r, ok) ==
  LET i == run[r].delIndex IN
  /\ run[r].pc = "delFrames"
  /\ fsFrames' = IF ok THEN fsFrames \ {i} ELSE fsFrames
  /\ run' = [run EXCEPT ![r] = [@ EXCEPT
               !.pc = IF i + 1 = totalFrames THEN "delAudio" ELSE "delFrames",
               !.delIndex = i + 1,
               !.delAttempted = @ \cup {<<"frame", i>>},
               !.delFailed = @ \/ ~ok]]
  /\ UNCHANGED <<uiVars, ffVars, refs, edits, fsAudio, fsOutput, encProgress,
                 nextRun, lastExportWrite>>
  /\ UNCHANGED paneVars

\* Variant: audio.mp3 is left out of the cleanup.
DeleteAudioSkipped(r, ok) ==
  /\ run[r].pc = "delAudio"
  /\ ok \in BOOLEAN
  /\ run' = [run EXCEPT ![r] = [@ EXCEPT !.pc = "delOutput"]]
  /\ UNCHANGED <<uiVars, ffVars, refs, edits, fsVars, encProgress,
                 nextRun, lastExportWrite>>
  /\ UNCHANGED paneVars

\* await ffmpeg.deleteFile('audio.mp3').catch(() => {})
DeleteAudio(r, ok) ==
  /\ run[r].pc = "delAudio"
  /\ fsAudio' = IF ok THEN FALSE ELSE fsAudio
  /\ run' = [run EXCEPT ![r] = [@ EXCEPT
               !.pc = "delOutput",
               !.delAttempted = @ \cup {<<"audio", 0>>},
               !.delFailed = @ \/ ~ok]]
  /\ UNCHANGED <<uiVars, ffVars, refs, edits, fsFrames, fsOutput, encProgress,
                 nextRun, lastExportWrite>>
  /\ UNCHANGED paneVars

\* await ffmpeg.deleteFile('output.mp4').catch(() => {}); await
\* audioCtx.close(); setExportProgress(100); the 500 ms timer is armed.
DeleteOutput(r, ok) ==
  /\ run[r].pc = "delOutput"
  /\ fsOutput' = IF ok THEN "absent" ELSE fsOutput
  /\ exportProgress' = 100
  /\ lastExportWrite' = 100
  /\ run' = [run EXCEPT ![r] = [Returned(@) EXCEPT
               !.pc = "done",
               !.delAttempted = @ \cup {<<"output", 0>>},
               !.delFailed = @ \/ ~ok,
               !.progressOf = 100]]
  /\ UNCHANGED <<isExporting, exportStage, ffVars, refs, edits, fsFrames,
                 fsAudio, encProgress, nextRun>>
  /\ UNCHANGED paneVars

\* setTimeout(() => { setIsExporting(false); setExportStage('idle'); }, 500)
FinishTimer(r) ==
  /\ run[r].pc = "done"
  /\ isExporting' = FALSE
  /\ exportStage' = "idle"
  /\ run' = [run EXCEPT ![r] = [@ EXCEPT !.pc = "finished"]]
  /\ UNCHANGED <<exportProgress, ffVars, refs, edits, fsVars, encProgress,
                 nextRun, lastExportWrite>>
  /\ UNCHANGED paneVars

Next ==
  \/ LoadFFmpeg
  \/ LoadFFmpegDone
  \/ LoadFFmpegFails
  \/ InitEffect
  \/ \E ctxOk \in BOOLEAN : StartRecording(ctxOk)
  \/ \E r \in Runs, res \in PreloadResults : PreloadDone(r, res)
  \/ \E r \in Runs : PreloadVideo(r)
  \/ \E r \in Runs, res \in PreloadResults : VideoSettled(r, res)
  \/ \E r \in Runs : FetchDone(r)
  \/ \E r \in Runs : FetchFails(r)
  \/ \E r \in Runs : DecodeDone(r)
  \/ \E r \in Runs : DecodeFails(r)
  \/ \E r \in Runs : RenderFrame(r)
  \/ \E r \in Runs : DrawFails(r)
  \/ \E r \in Runs : FrameWritten(r)
  \/ \E r \in Runs : FrameWriteFails(r)
  \/ \E r \in Runs : AudioWritten(r)
  \/ \E r \in Runs : AudioWriteFails(r)
  \/ \E r \in Runs, p \in ProgressValues : EncoderProgress(r, p)
  \/ \E r \in Runs, ret \in 0..1, out \in {"keep", "empty", "nonempty"} :
       ExecReturns(r, ret, out)
  \/ \E r \in Runs : ExecThrows(r)
  \/ \E r \in Runs : ReadOutput(r)
  \/ \E r \in Runs, ok \in BOOLEAN : DeleteFrame(r, ok)
  \/ \E r \in Runs, ok \in BOOLEAN : DeleteAudio(r, ok)
  \/ \E r \in Runs, ok \in BOOLEAN : DeleteOutput(r, ok)
  \/ \E r \in Runs : FinishTimer(r)

\* The export job with the settings left alone.  refs is read by DecodeDone
\* into the call's snapshot and by nothing else (no guard, no other
\* assignment), so the edits of the panel cannot change what the job does.
Spec == Init /\ [][Next]_vars

\* The export job together with the edits of the settings panel.
NextUI ==
  \/ Next
  \/ \E k \in SettingKinds : EditSetting(k)

SpecUI == Init /\ [][NextUI]_vars

\* A step of renderOffline call r that a collaborator's return or throw, a
\* resolved image load or an armed timer brings about.  Left out: the
\* progress events of the encoder, which do not move the call on, and the
\* loadeddata / error event of the background video, which no call returns
\* and no timer replaces.
RunStep(r) ==
  \/ \E res \in PreloadResults : PreloadDone(r, res)
  \/ FetchDone(r)
  \/ FetchFails(r)
  \/ DecodeDone(r)
  \/ DecodeFails(r)
  \/ RenderFrame(r)
  \/ DrawFails(r)
  \/ FrameWritten(r)
  \/ FrameWriteFails(r)
  \/ AudioWritten(r)
  \/ AudioWriteFails(r)
  \/ \E ret \in 0..1, out \in {"keep", "empty", "nonempty"} :
       ExecReturns(r, ret, out)
  \/ ExecThrows(r)
  \/ ReadOutput(r)
  \/ \E ok \in BOOLEAN : DeleteFrame(r, ok)
  \/ \E ok \in BOOLEAN : DeleteAudio(r, ok)
  \/ \E ok \in BOOLEAN : DeleteOutput(r, ok)
  \/ FinishTimer(r)

\* The export job when every call it awaits returns or throws.
SpecLive == Init /\ [][Next]_vars /\ \A r \in Runs : WF_vars(RunStep(r))

TypeOK ==
  /\ isExporting \in BOOLEAN
  /\ exportProgress \in 0..100
  /\ exportStage \in {"idle", "capturing", "encoding"}
  /\ nextRun \in 0..MaxExports

\* ======================================================================
\* The frame pipeline: renderLoop (live preview) and the body of the frame
\* loop of renderOffline.  A frame is the sequence of canvas operations it
\* executes, each <<stage, operation, arguments>>.  Intensities are held in
\* tenths (0..10), normBass and alpha values in hundredths.
\* ======================================================================

\* interface EffectConfig / EffectIntensities
EffectNames == {"shake", "glitch", "vhs", "cctv", "scanlines", "chromatic",
                "bloom", "filmGrain", "pixelate", "strobe", "vignette",
                "hueShift", "letterbox"}
\* presets that carry the album-art inlay
AlbumPresets == {"NCS Circle", "Hexagon", "Orbital", "Shockwave"}

Op(stage, name, args) == <<stage, name, args>>
On(inp, e) == e \in inp.effects
Intensity(inp, e) == inp.intensities[e]
Max2(a, b) == IF a >= b THEN a ELSE b

\* bass = sum(dataArray[0..19]) / 20; normBass = bass / 255
NormBass(inp) == (inp.bass * 100) \div 255

\* ctx.globalCompositeOperation = 'source-over'; fillStyle '#000'; fillRect
ClearCanvas == <<Op("clear", "fillRect", <<"#000">>)>>

\* if (bgSource) { save; globalAlpha; [shake translate]; zoom; drawImage; restore }
DrawBackground(inp) ==
  IF inp.bg
    THEN <<Op("background", "globalAlpha", <<"1-bgDim">>)>>
         \o (IF On(inp, "shake") /\ NormBass(inp) > 60 - 3 * Intensity(inp, "shake")
               THEN <<Op("background", "shakeTranslate",
                         <<5 * Intensity(inp, "shake"), NormBass(inp)>>)>>
               ELSE <<>>)
         \o <<Op("background", "drawImage", <<"bgSource", "zoom">>)>>
    ELSE <<>>

\* ctx.save(); [shake translate]; switch (preset) { ... }
DrawPreset(inp) ==
  (IF On(inp, "shake") /\ NormBass(inp) > 60
     THEN <<Op("preset", "shakeTranslate", <<3 * Intensity(inp, "shake"), NormBass(inp)>>)>>
     ELSE <<>>)
  \o (IF inp.preset = "Minimal" THEN <<>>
      ELSE <<Op("preset", "draw", <<inp.preset, inp.bass>>)>>)

\* drawParticles(ctx, width, height, time, bass, particleCount, primaryColor)
DrawParticles(inp) == <<Op("particles", "drawParticles", <<inp.bass>>)>>

\* renderLoop: drawAlbumArt is called for every album preset; it strokes the
\* border, clips, and draws the image when one is complete, the '#111'
\* placeholder otherwise.
drawAlbumArt(inp) ==
  <<Op("albumArt", "strokeCircle", <<"primaryColor">>),
    IF inp.album THEN Op("albumArt", "drawImage", <<>>)
                 ELSE Op("albumArt", "fillRect", <<"#111">>)>>

\* renderOffline: the inlay is drawn only when albumImage is set.
AlbumArtInline(inp) ==
  IF inp.album
    THEN <<Op("albumArt", "strokeCircle", <<"primaryColor">>),
           Op("albumArt", "drawImage", <<>>)>>
    ELSE <<>>

\* canvas.width = 1920; canvas.height = 1080 (the preview canvas has the
\* same size)
width == 1920
height == 1080

\* Variant: 16 * intensity is rounded to the nearest integer.
PixelateRounded(inp) ==
  IF On(inp, "pixelate")
    THEN LET pixelSize == Max2(4, (16 * Intensity(inp, "pixelate") + 5) \div 10)
         IN <<Op("pixelate", "downscaleUpscale",
                 <<pixelSize, width \div pixelSize, height \div pixelSize>>)>>
    ELSE <<>>

\* pixelSize = Math.max(4, Math.floor(16 * intensities.pixelate));
\* smallW = Math.floor(width / pixelSize); smallH = Math.floor(height / pixelSize)
Pixelate(inp) ==
  IF On(inp, "pixelate")
    THEN LET pixelSize == Max2(4, (16 * Intensity(inp, "pixelate")) \div 10)
         IN <<Op("pixelate", "downscaleUpscale",
                 <<pixelSize, width \div pixelSize, height \div pixelSize>>)>>
    ELSE <<>>

\* currentTexts.forEach(layer => { ...; ctx.fillText(layer.text, xPos, yPos) });
\* ctx.restore()
TextSize(inp, id) == IF id = "1" /\ inp.preset = "Minimal" THEN "size*pulse" ELSE "size"
DrawTextLayers(inp) ==
  [j \in 1..Len(inp.texts) |->
     Op("text", "fillText", <<inp.texts[j], TextSize(inp, inp.texts[j].id)>>)]

\* if (effects.scanlines || effects.cctv) { rgba(0,0,0, intensities.scanlines*0.8) ... }
Scanlines(inp) ==
  IF On(inp, "scanlines") \/ On(inp, "cctv")
    THEN <<Op("scanlines", "fillRects", <<8 * Intensity(inp, "scanlines")>>)>>
    ELSE <<>>

\* Math.random() > (1 - intensities.glitch), for a draw rnd in tenths
GlitchFires(inp, rnd) == On(inp, "glitch") /\ rnd > 10 - Intensity(inp, "glitch")

\* if (vhs || chromatic || (glitch && Math.random() > 1 - intensities.glitch))
\*   intensity = vhs ? intensities.vhs : intensities.chromatic
VhsChromatic(inp) ==
  IF On(inp, "vhs") \/ On(inp, "chromatic") \/ GlitchFires(inp, inp.rndVhs)
    THEN LET intensity == IF On(inp, "vhs") THEN Intensity(inp, "vhs")
                          ELSE Intensity(inp, "chromatic")
         IN <<Op("vhs", "redShift", <<2 * intensity, intensity * NormBass(inp)>>),
              Op("vhs", "blueShift", <<2 * intensity, intensity * NormBass(inp)>>)>>
    ELSE <<>>

\* renderLoop: a slice of the canvas is redrawn displaced, then the block.
GlitchSlices(inp) ==
  IF GlitchFires(inp, inp.rndGlitch)
    THEN <<Op("glitch", "drawSlice", <<4 * Intensity(inp, "glitch")>>),
           Op("glitch", "fillBlock", <<"random">>)>>
    ELSE <<>>

\* renderOffline: the block only.
GlitchBlock(inp) ==
  IF GlitchFires(inp, inp.rndGlitch)
    THEN <<Op("glitch", "fillBlock", <<"random">>)>>
    ELSE <<>>

\* green tint and vignette of the CCTV look
Cctv(inp) ==
  IF On(inp, "cctv")
    THEN <<Op("cctv", "tint", <<4 * Intensity(inp, "cctv")>>),
           Op("cctv", "vignette", <<>>)>>
    ELSE <<>>

\* renderLoop only: new Date().toLocaleString() and "REC" are stamped.
CctvStamp(inp) ==
  IF On(inp, "cctv")
    THEN <<Op("cctv", "stamp", <<"new Date()">>), Op("cctv", "stamp", <<"REC">>)>>
    ELSE <<>>

Bloom(inp) ==
  IF On(inp, "bloom")
    THEN <<Op("bloom", "blurScreen", <<15 * Intensity(inp, "bloom"), 4 * Intensity(inp, "bloom")>>)>>
    ELSE <<>>

\* for (i = 0; i < data.length; i += stride): stride 4 in renderLoop, 16 in
\* renderOffline
FilmGrain(inp, stride) ==
  IF On(inp, "filmGrain")
    THEN <<Op("filmGrain", "putImageData", <<5 * Intensity(inp, "filmGrain"), stride>>)>>
    ELSE <<>>

\* Variant: the strobe fires on the bass alone.
StrobeUngated(inp) ==
  IF NormBass(inp) > 70 - 3 * Intensity(inp, "strobe")
    THEN <<Op("strobe", "fillRect", <<Intensity(inp, "strobe") * NormBass(inp) * 8>>)>>
    ELSE <<>>

\* if (effects.strobe && normBass > (0.7 - intensities.strobe * 0.3))
Strobe(inp) ==
  IF On(inp, "strobe") /\ NormBass(inp) > 70 - 3 * Intensity(inp, "strobe")
    THEN <<Op("strobe", "fillRect", <<Intensity(inp, "strobe") * NormBass(inp) * 8>>)>>
    ELSE <<>>

Vignette(inp) ==
  IF On(inp, "vignette")
    THEN <<Op("vignette", "fillRect", <<8 * Intensity(inp, "vignette")>>)>>
    ELSE <<>>

\* hueRotation = intensities.hueShift * 360 * (1 + normBass * 0.5)
HueShift(inp) ==
  IF On(inp, "hueShift")
    THEN <<Op("hueShift", "hueRotate",
              <<Intensity(inp, "hueShift") * 36 * (200 + NormBass(inp))>>)>>
    ELSE <<>>

Letterbox(inp) ==
  IF On(inp, "letterbox")
    THEN <<Op("letterbox", "fillBars", <<12 * Intensity(inp, "letterbox")>>)>>
    ELSE <<>>

\* One pass of renderLoop.
RenderLoopOps(inp) ==
  ClearCanvas \o DrawBackground(inp) \o DrawPreset(inp) \o DrawParticles(inp)
  \o (IF inp.preset \in AlbumPresets THEN drawAlbumArt(inp) ELSE <<>>)
  \o Pixelate(inp) \o DrawTextLayers(inp) \o Scanlines(inp) \o VhsChromatic(inp)
  \o GlitchSlices(inp) \o Cctv(inp) \o CctvStamp(inp) \o Bloom(inp)
  \o FilmGrain(inp, 4) \o Strobe(inp) \o Vignette(inp) \o HueShift(inp)
  \o Letterbox(inp)

\* Variant: the text layers are drawn before the pixelate pass.
RenderOfflineOpsTextFirst(inp) ==
  ClearCanvas \o DrawBackground(inp) \o DrawPreset(inp) \o DrawParticles(inp)
  \o (IF inp.preset \in AlbumPresets THEN AlbumArtInline(inp) ELSE <<>>)
  \o DrawTextLayers(inp) \o Pixelate(inp) \o Scanlines(inp) \o VhsChromatic(inp)
  \o GlitchBlock(inp) \o Cctv(inp) \o Bloom(inp)
  \o FilmGrain(inp, 16) \o Strobe(inp) \o Vignette(inp) \o HueShift(inp)
  \o Letterbox(inp)

\* One iteration of the frame loop of renderOffline, up to the capture.
RenderOfflineOps(inp) ==
  ClearCanvas \o DrawBackground(inp) \o DrawPreset(inp) \o DrawParticles(inp)
  \o (IF inp.preset \in AlbumPresets THEN AlbumArtInline(inp) ELSE <<>>)
  \o Pixelate(inp) \o DrawTextLayers(inp) \o Scanlines(inp) \o VhsChromatic(inp)
  \o GlitchBlock(inp) \o Cctv(inp) \o Bloom(inp)
  \o FilmGrain(inp, 16) \o Strobe(inp) \o Vignette(inp) \o HueShift(inp)
  \o Letterbox(inp)

FrameOps(path, inp) ==
  IF path = "live" THEN RenderLoopOps(inp) ELSE RenderOfflineOps(inp)

\* ------------------------------------------------------ inputs of a frame
\* Number of effect toggles switched on together.
MaxEnabled == 2

ToggleSets == {S \in SUBSET EffectNames : Cardinality(S) <= MaxEnabled}
\* intensity slider positions, in tenths
Levels == {0, 3, 5, 10}
\* mean of the 20 lowest bins, 0..255
BassLevels == {0, 153, 255}
\* one preset with the album inlay, one without, and the one without a drawer
PresetSample == {"NCS Circle", "Linear Bars", "Minimal"}
\* values of a Math.random() draw, in tenths
RndValues == {0, 5}
FrameInputs ==
  {[effects |-> S, intensities |-> [e \in EffectNames |-> l], bass |-> b,
    preset |-> p, bg |-> g, album |-> a, rndVhs |-> r1, rndGlitch |-> r2,
    texts |-> DefaultTexts] :
      S \in ToggleSets, l \in Levels, b \in BassLevels, p \in PresetSample,
      g \in BOOLEAN, a \in BOOLEAN, r1 \in RndValues, r2 \in RndValues}

InitFrame ==
  /\ ExportInit
  /\ TextInit
  /\ ServerInit
  /\ analysis = NoAnalysis
  /\ frame \in {[path |-> "none", inp |-> i, ops |-> <<>>] : i \in FrameInputs}

\* requestAnimationFrame(renderLoop) fires: one frame of the live preview.
RenderLoop ==
  /\ frame.path # "live"
  /\ frame' = [frame EXCEPT !.path = "live", !.ops = RenderLoopOps(frame.inp)]
  /\ UNCHANGED <<exportVars, serverVars, textVars, analysis>>

\* The frame body of renderOffline is run on the same inputs.
RenderOfflineFrame ==
  /\ frame.path # "offline"
  /\ frame' = [frame EXCEPT !.path = "offline", !.ops = RenderOfflineOps(frame.inp)]
  /\ UNCHANGED <<exportVars, serverVars, textVars, analysis>>

NextFrame ==
  \/ RenderLoop
  \/ RenderOfflineFrame

SpecFrame == InitFrame /\ [][NextFrame]_vars

\* ======================================================================
\* The text layer panel: addTextLayer, updateTextLayer, removeTextLayer.
\* Each handler installs a new array with setTextLayers; the component
\* re-renders and the effect of line 217 stores the array in textLayersRef
\* before the next event or animation frame is handled.
\* ======================================================================

\* Number of addTextLayer calls in one behaviour.
MaxAdds == 2
\* Number of milliseconds the clock advances in one behaviour.
MaxTicks == 1

\* Date.now().toString() at tick t
NowString(t) == <<"1700000000000", "1700000000001", "1700000000002">>[t + 1]
\* values of the editable fields of a layer
TextValues == {0, 1}
LayerIds(layers) == {layers[j].id : j \in 1..Len(layers)}

\* Variant: the new layer is put in front of the others.
AddTextLayerInFront ==
  /\ added < MaxAdds
  /\ added' = added + 1
  /\ textLayers' = <<[id |-> NowString(now), n |-> added + 3, text |-> 0]>>
                   \o textLayers
  /\ textLayersRef' = textLayers'
  /\ UNCHANGED <<now, frame, exportVars, serverVars, analysis>>

\* setTextLayers([...textLayers, newLayer]) with id: Date.now().toString()
AddTextLayer ==
  /\ added < MaxAdds
  /\ added' = added + 1
  /\ textLayers' = Append(textLayers,
                          [id |-> NowString(now), n |-> added + 3, text |-> 0])
  /\ textLayersRef' = textLayers'
  /\ UNCHANGED <<now, frame, exportVars, serverVars, analysis>>

\* setTextLayers(textLayers.map(l => l.id === id ? { ...l, ...updates } : l))
\* The inputs that call it belong to a layer of the list.
UpdateTextLayer(id, updates) ==
  /\ id \in LayerIds(textLayers)
  /\ textLayers' = [j \in 1..Len(textLayers) |->
                      IF textLayers[j].id = id
                        THEN [textLayers[j] EXCEPT !.text = updates]
                        ELSE textLayers[j]]
  /\ textLayersRef' = textLayers'
  /\ UNCHANGED <<now, added, frame, exportVars, serverVars, analysis>>

\* setTextLayers(textLayers.filter(l => l.id !== id))
RemoveTextLayer(id) ==
  /\ id \in LayerIds(textLayers)
  /\ textLayers' = SelectSeq(textLayers, LAMBDA l : l.id # id)
  /\ textLayersRef' = textLayers'
  /\ UNCHANGED <<now, added, frame, exportVars, serverVars, analysis>>

\* A millisecond passes.
Tick ==
  /\ now < MaxTicks
  /\ now' = now + 1
  /\ UNCHANGED <<textLayers, textLayersRef, added, frame, exportVars, serverVars, analysis>>

\* The settings of a frame other than its text layers: no effect on, preset
\* 'Minimal' (the preset under which layer '1' is sized by the pulse).
TextFrameInput(texts) ==
  [effects |-> {}, intensities |-> [e \in EffectNames |-> 5], bass |-> 255,
   preset |-> "Minimal", bg |-> TRUE, album |-> FALSE, rndVhs |-> 0,
   rndGlitch |-> 0, texts |-> texts]

\* renderLoop reads textLayersRef.current (line 1045); renderOffline reads it
\* when its frame loop begins (line 563).
RenderFromRefs(path) ==
  /\ frame' = [path |-> path, inp |-> TextFrameInput(textLayersRef),
               ops |-> FrameOps(path, TextFrameInput(textLayersRef))]
  /\ frame' # frame
  /\ UNCHANGED <<textVars, exportVars, serverVars, analysis>>

NextText ==
  \/ AddTextLayer
  \/ \E id \in LayerIds(textLayers), updates \in TextValues : UpdateTextLayer(id, updates)
  \/ \E id \in LayerIds(textLayers) : RemoveTextLayer(id)
  \/ Tick
  \/ \E path \in {"live", "offline"} : RenderFromRefs(path)

SpecText == Init /\ [][NextText]_vars

\* ======================================================================
\* analyzeAudioOffline and the frame loop of renderOffline that reads what
\* it returns.  Samples are held as |x| * 512, so that Math.floor(avg * 512)
\* is an integer division; duration * fps is length * fps / sampleRate.
\* ======================================================================

\* const fftSize = 2048
fftSize == 2048
\* const frequencyBinCount = fftSize / 2
frequencyBinCount == fftSize \div 2

Min2(a, b) == IF a <= b THEN a ELSE b
\* Math.ceil(n / d) for n >= 0, d > 0
Ceil(n, d) == (n + d - 1) \div d

\* Variant: the frame count is rounded down.
AnalyzeTotalFramesFloor(buf, fps) == (buf.length * fps) \div buf.sampleRate

\* analyzeAudioOffline: const totalFrames = Math.ceil(duration * fps)
AnalyzeTotalFrames(buf, fps) == Ceil(buf.length * fps, buf.sampleRate)

\* renderOffline: const totalFrames = Math.ceil(duration * fps)
LoopTotalFrames(buf, fps) == Ceil(buf.length * fps, buf.sampleRate)

\* Math.abs(channelData[i]) * 512: every other sample is silent
AbsSample(buf, i) == IF i % 2 = 0 THEN buf.amp ELSE 0

\* for (i = binStart; i < binEnd && i < channelData.length; i++) sum += ...
RECURSIVE SumAbs(_, _, _)
SumAbs(buf, i, binEnd) ==
  IF i < binEnd /\ i < buf.length
    THEN AbsSample(buf, i) + SumAbs(buf, i + 1, binEnd)
    ELSE 0

\* A store into a Uint8Array keeps the value modulo 256.
ToUint8(v) == v % 256

\* Variant: the window of a frame is its own sampleRate / fps samples.
FrameDataOwnWindow(buf, fps, f) ==
  LET samplesPerFrame == buf.sampleRate \div fps
      startSample == f * samplesPerFrame
      endSample == Min2(startSample + samplesPerFrame, buf.length)
      binSize == Max2(1, (endSample - startSample) \div frequencyBinCount)
  IN [b \in 1..frequencyBinCount |->
        LET binStart == startSample + (b - 1) * binSize
            binEnd == Min2(binStart + binSize, endSample)
        IN ToUint8(Min2(255, SumAbs(buf, binStart, binEnd) \div binSize))]

\* The frameData analyzeAudioOffline pushes for one frame.
FrameData(buf, fps, f) ==
  LET samplesPerFrame == buf.sampleRate \div fps
      startSample == f * samplesPerFrame
      endSample == Min2(startSample + fftSize, buf.length)
      binSize == Max2(1, (endSample - startSample) \div frequencyBinCount)
  IN [b \in 1..frequencyBinCount |->
        LET binStart == startSample + (b - 1) * binSize
            binEnd == Min2(binStart + binSize, endSample)
        IN ToUint8(Min2(255, SumAbs(buf, binStart, binEnd) \div binSize))]

\* new Uint8Array(1024)
EmptyFrame == [b \in 1..1024 |-> 0]

\* for (let i = 0; i < n; i++) sum += dataArray[i]
RECURSIVE SumBins(_, _, _)
SumBins(dataArray, i, n) ==
  IF i < n THEN dataArray[i + 1] + SumBins(dataArray, i + 1, n) ELSE 0

\* Numbers between 0 and 1 are held as multiples of 1/5100 (= 1/20/255), and
\* pulse as a multiple of 1/102000, so that the divisions are exact.

\* bassSum / 20 / 255 of the time-domain approximation
BassLevel(dataArray) == SumBins(dataArray, 0, 20)

\* Variant: the bass loop runs over 21 bins.
NormBassOfWide(dataArray) == SumBins(dataArray, 0, 21)

\* bass = sum / 20; normBass = bass / 255
NormBassOf(dataArray) == SumBins(dataArray, 0, 20)

\* pulse = 1 + normBass * 0.15
PulseOf(normBass) == 102000 + 3 * normBass

\* What analyser.getByteFrequencyData may leave in the 1024 bytes.
LiveArrays ==
  {[b \in 1..1024 |-> v] : v \in {0, 128, 255}}
    \cup {[b \in 1..1024 |-> (b * 13) % 256],
          [b \in 1..1024 |-> IF b <= 20 THEN 0 ELSE 255]}

\* Decoded tracks: 10 s at 44.1 kHz, and short ones down to the empty track.
SampleRates == {44100}
Lengths == {0, 1, 1500, 3000, 4000, 441000}
\* |x| * 512 for x = 0, 0.2, 2
Amplitudes == {0, 100, 1024}
FpsValues == {24, 30}

InitAudio ==
  /\ ExportInit
  /\ TextInit
  /\ ServerInit
  /\ frame = NoFrame
  /\ analysis \in {[NoAnalysis EXCEPT !.pc = "decoded", !.fps = fps,
                      !.buf = [sampleRate |-> sr, length |-> n, amp |-> a]] :
                     sr \in SampleRates, n \in Lengths, a \in Amplitudes,
                     fps \in FpsValues}

\* totalFrames of renderOffline is computed (line 550), analyzeAudioOffline
\* returns frequencyDataFrames; the array is never written again, so it is
\* held as its length, element f being FrameData(buf, fps, f).
AnalyzeAudioOffline ==
  /\ analysis.pc = "decoded"
  /\ analysis' = [analysis EXCEPT
                    !.pc = "analysed",
                    !.total = LoopTotalFrames(analysis.buf, analysis.fps),
                    !.count = AnalyzeTotalFrames(analysis.buf, analysis.fps)]
  /\ UNCHANGED <<exportVars, serverVars, textVars, frame>>

\* const dataArray = frequencyDataFrames[frameIndex] || new Uint8Array(1024),
\* then the frame is drawn and frameIndex++.
ReadFrame ==
  /\ analysis.pc = "analysed"
  /\ analysis.frameIndex < analysis.total
  /\ LET read == [analysis EXCEPT
                    !.frameIndex = @ + 1,
                    !.outside = @ \/ analysis.frameIndex >= analysis.count,
                    !.dataArray = IF analysis.frameIndex < analysis.count
                                    THEN FrameData(analysis.buf, analysis.fps,
                                                   analysis.frameIndex)
                                    ELSE EmptyFrame]
       IN /\ analysis' = [read EXCEPT
                            !.bassLevel = BassLevel(read.dataArray),
                            !.normBass = NormBassOf(read.dataArray),
                            !.pulse = PulseOf(NormBassOf(read.dataArray))]
  /\ UNCHANGED <<exportVars, serverVars, textVars, frame>>

\* One frame of the live preview: the analyser fills dataArray, then bass,
\* normBass and pulse are computed.
RenderLoopBass ==
  /\ \E d \in LiveArrays :
       /\ d # analysis.live.dataArray
       /\ analysis' = [analysis EXCEPT
                         !.live = [dataArray |-> d, normBass |-> NormBassOf(d),
                                   pulse |-> PulseOf(NormBassOf(d))]]
  /\ UNCHANGED <<exportVars, serverVars, textVars, frame>>

NextAudio ==
  \/ AnalyzeAudioOffline
  \/ ReadFrame
  \/ RenderLoopBass

SpecAudio == InitAudio /\ [][NextAudio]_vars

\* ======================================================================
\* The generation job queue (server/src/services/acestep.ts).  The server is
\* one Node.js thread: a handler runs from one await to the next without
\* interruption, and the code that follows a resolved await of an async
\* function runs before any other handler.  An action is one such run.
\* ======================================================================

\* The other variables of the module.
clientVars == <<exportVars, frame, textVars, analysis>>

\* The part of the state a run of processQueue reads and writes.
QueueState(js, keys, q, st, pc, job) ==
  [jobs |-> js, activeJobs |-> keys, jobQueue |-> q, started |-> st,
   pc |-> pc, job |-> job]

\* jobQueue.shift(); jobQueue.forEach((id, index) => { const queuedJob =
\* activeJobs.get(id); if (queuedJob) queuedJob.queuePosition = index + 1 })
ShiftQueue(qs) ==
  LET q == IF qs.jobQueue = <<>> THEN <<>> ELSE Tail(qs.jobQueue)
  IN [qs EXCEPT
        !.jobQueue = q,
        !.jobs = [j \in Jobs |->
                    IF j \in qs.activeJobs /\ \E i \in 1..Len(q) : q[i] = j
                      THEN [qs.jobs[j] EXCEPT !.queuePosition =
                              CHOOSE i \in 1..Len(q) : q[i] = j]
                      ELSE qs.jobs[j]]]

\* while (jobQueue.length > 0) { ... }: the loop runs on until it calls
\* processGeneration, which sets job.status = 'running' and suspends at
\* await mkdir, or until the queue is empty.  A head that is not in
\* activeJobs or is not 'queued' is shifted out.
RECURSIVE WhileLoop(_)
WhileLoop(qs) ==
  IF qs.jobQueue = <<>>
    THEN [qs EXCEPT !.pc = "ended", !.job = 0]
    ELSE LET jobId == Head(qs.jobQueue)
         IN IF jobId \in qs.activeJobs /\ qs.jobs[jobId].status = "queued"
              THEN [qs EXCEPT !.jobs[jobId].status = "running",
                              !.started = Append(@, jobId),
                              !.pc = "mkdir", !.job = jobId]
              ELSE WhileLoop(ShiftQueue(qs))

\* The state after a run of processQueue call l that left qs.
Install(l, qs) ==
  /\ jobs' = qs.jobs
  /\ jobQueue' = qs.jobQueue
  /\ started' = qs.started
  /\ loops' = [loops EXCEPT ![l] = [pc |-> qs.pc, job |-> qs.job]]
  /\ isProcessingQueue' = (qs.pc # "ended")

\* Variant: processQueue has no guard.
MayEnterAlways == TRUE

\* if (isProcessingQueue) return;
MayEnter == ~isProcessingQueue

\* generateMusicViaAPI: the job is created 'queued' with queuePosition
\* jobQueue.length + 1, stored and pushed; processQueue() is called and
\* runs up to its first await.  Job ids are taken to be distinct.
GenerateMusicViaAPI ==
  \E jobId \in Jobs :
    /\ jobs[jobId] = NoJob
    /\ \A j \in Jobs : j < jobId => jobs[j] # NoJob
    /\ activeJobs' = activeJobs \cup {jobId}
    /\ LET js == [jobs EXCEPT ![jobId] =
                    [status |-> "queued", queuePosition |-> Len(jobQueue) + 1,
                     error |-> "none"]]
           q == Append(jobQueue, jobId)
       IN IF MayEnter
            THEN Install(jobId, WhileLoop(QueueState(js, activeJobs', q, started,
                                                    "entered", 0)))
            ELSE /\ jobs' = js
                 /\ jobQueue' = q
                 /\ UNCHANGED <<isProcessingQueue, loops, started>>
    /\ UNCHANGED <<answer, clientVars>>

\* processGeneration returned to processQueue call l (it never rejects: its
\* body is inside try / catch): the head is shifted and the loop goes on.
Returned2Queue(l, js) ==
  Install(l, WhileLoop(ShiftQueue(
               QueueState(js, activeJobs, jobQueue, started, loops[l].pc,
                          loops[l].job))))

\* catch (error) { job.status = 'failed'; job.error = ...; await rm(...) }
FailJob(l, message) ==
  /\ jobs' = [jobs EXCEPT ![loops[l].job].status = "failed",
                          ![loops[l].job].error = message]
  /\ loops' = [loops EXCEPT ![l].pc = "rm"]
  /\ UNCHANGED <<activeJobs, jobQueue, isProcessingQueue, started, answer,
                 clientVars>>

\* await mkdir(jobOutputDir) resolved; the arguments are built and the
\* Python process is spawned.
MkdirDone(l) ==
  /\ loops[l].pc = "mkdir"
  /\ loops' = [loops EXCEPT ![l].pc = "python"]
  /\ UNCHANGED <<jobs, activeJobs, jobQueue, isProcessingQueue, started,
                 answer, clientVars>>

MkdirFails(l) ==
  /\ loops[l].pc = "mkdir"
  /\ FailJob(l, "mkdir")

\* The Python process closed (or could not be spawned) and
\* runPythonGeneration resolved: with success and audio paths the copying
\* starts, otherwise the job fails.
PythonExits(l, result) ==
  /\ loops[l].pc = "python"
  /\ IF result = "audio"
       THEN /\ loops' = [loops EXCEPT ![l].pc = "copy"]
            /\ UNCHANGED <<jobs, activeJobs, jobQueue, isProcessingQueue,
                           started, answer, clientVars>>
       ELSE FailJob(l, IF result = "noAudio" THEN "No audio files generated"
                                             ELSE "Generation failed")

\* The files are copied and the output directory removed: job.status =
\* 'succeeded', job.result is set, processGeneration returns.
CopyDone(l) ==
  /\ loops[l].pc = "copy"
  /\ Returned2Queue(l, [jobs EXCEPT ![loops[l].job].status = "succeeded"])
  /\ UNCHANGED <<activeJobs, answer, clientVars>>

\* mkdir(AUDIO_DIR) or copyFile threw.
CopyFails(l) ==
  /\ loops[l].pc = "copy"
  /\ FailJob(l, "copyFile")

\* The rm of the catch block returned or threw; processGeneration returns.
RmSettled(l) ==
  /\ loops[l].pc = "rm"
  /\ Returned2Queue(l, jobs)
  /\ UNCHANGED <<activeJobs, answer, clientVars>>

\* cleanupJob(jobId): activeJobs.delete(jobId)
CleanupJob(jobId) ==
  /\ jobId \in activeJobs
  /\ activeJobs' = activeJobs \ {jobId}
  /\ UNCHANGED <<jobs, jobQueue, isProcessingQueue, loops, started, answer,
                 clientVars>>

\* cleanupOldJobs(maxAgeMs): every job with now - startTime > maxAgeMs is
\* deleted, whatever its status.  startTime grows with the job id, so the
\* jobs deleted are those up to some id.
CleanupOldJobs(oldest) ==
  /\ \E j \in activeJobs : j <= oldest
  /\ activeJobs' = {j \in activeJobs : j > oldest}
  /\ UNCHANGED <<jobs, jobQueue, isProcessingQueue, loops, started, answer,
                 clientVars>>

\* What getJobStatus(jobId) returns; job is the status the job object had at
\* the call ("none" for an id that was never submitted).
JobStatusOf(jobId) ==
  IF jobId \notin activeJobs
    THEN [id |-> jobId, status |-> "failed", error |-> "Job not found",
          job |-> jobs[jobId].status]
  ELSE IF jobs[jobId].status = "failed"
    THEN [id |-> jobId, status |-> "failed", error |-> jobs[jobId].error,
          job |-> jobs[jobId].status]
  ELSE [id |-> jobId, status |-> jobs[jobId].status, error |-> "none",
        job |-> jobs[jobId].status]

\* getJobStatus(jobId), for any id, submitted or not.
GetJobStatus(jobId) ==
  /\ answer' = JobStatusOf(jobId)
  /\ answer' # answer
  /\ UNCHANGED <<jobs, activeJobs, jobQueue, isProcessingQueue, loops,
                 started, clientVars>>

\* A step of processQueue call l that a returning call or an exiting
\* process brings about.
QueueStep(l) ==
  \/ MkdirDone(l)
  \/ MkdirFails(l)
  \/ \E result \in {"audio", "error", "noAudio"} : PythonExits(l, result)
  \/ CopyDone(l)
  \/ CopyFails(l)
  \/ RmSettled(l)

NextServer ==
  \/ GenerateMusicViaAPI
  \/ \E l \in Jobs : MkdirDone(l)
  \/ \E l \in Jobs : MkdirFails(l)
  \/ \E l \in Jobs, result \in {"audio", "error", "noAudio"} : PythonExits(l, result)
  \/ \E l \in Jobs : CopyDone(l)
  \/ \E l \in Jobs : CopyFails(l)
  \/ \E l \in Jobs : RmSettled(l)
  \/ \E jobId \in Jobs : CleanupJob(jobId)
  \/ \E oldest \in Jobs : CleanupOldJobs(oldest)
  \/ \E jobId \in Jobs : GetJobStatus(jobId)

SpecServer == Init /\ [][NextServer]_vars

\* The job queue when every call awaited returns or throws and every Python
\* process exits.
SpecServerLive ==
  Init /\ [][NextServer]_vars /\ \A l \in Jobs : WF_vars(QueueStep(l))

\* ======================================================================
\* Properties of the export job
\* ======================================================================

\* The step makes run r throw into the catch of startRecording.
Fails(r) == run[r].pc # "failed" /\ run'[r].pc = "failed"
\* The step is the completion timer of run r.
Completes(r) == run[r].pc = "done" /\ run'[r].pc = "finished"

\* C1: the job's stage only changes idle -> capturing (startRecording),
\* capturing -> encoding (renderOffline, after the last frame was captured),
\* and out of capturing or encoding only by a failure or, from encoding, by
\* completion; no other change of the stage occurs.
C1_StageStep ==
  exportStage' # exportStage =>
    \/ /\ exportStage = "idle" /\ exportStage' = "capturing"
       /\ nextRun' = nextRun + 1
    \/ /\ exportStage = "capturing" /\ exportStage' = "encoding"
       /\ \E r \in Runs : /\ run[r].pc = "wFrame" /\ run'[r].pc = "wAudio"
                          /\ run'[r].frameIndex = totalFrames
    \/ /\ exportStage = "encoding" /\ exportStage' = "idle"
       /\ \E r \in Runs : Completes(r) \/ Fails(r)
    \/ /\ exportStage = "capturing" /\ exportStage' = "idle"
       /\ \E r \in Runs : Fails(r)

C1_StageMachine == [][C1_StageStep]_vars

\* C2: at most one renderOffline call is in flight at any time.
C2_OneExportInFlight == Cardinality({r \in Runs : InFlight(r)}) <= 1

\* C3: while an export is in flight, every value startRecording, renderOffline
\* or the progress callback writes to exportProgress is at least the value
\* written before it.
C3_WriteStep ==
  ((\E r \in Runs : InFlight(r) /\ InFlight(r)') /\ lastExportWrite' # lastExportWrite)
    => lastExportWrite' >= lastExportWrite

C3_ProgressMonotone == [][C3_WriteStep]_vars

\* C4: an export whose output was read back non-empty ends by writing 100 and
\* can no longer fail; 100 is written only by a call that has triggered the
\* download; a call that failed has never written 100.
C4_HundredOnlyOnSuccess ==
  \A r \in Runs :
    /\ run[r].pc \in {"done", "finished"} =>
         /\ run[r].progressOf = 100
         /\ run[r].downloaded
         /\ run[r].outputData = "nonempty"
    /\ run[r].outputData = "nonempty" =>
         run[r].pc \in {"delFrames", "delAudio", "delOutput", "done", "finished"}
    /\ run[r].progressOf = 100 => run[r].downloaded
    /\ run[r].pc = "failed" => run[r].progressOf < 100 /\ ~run[r].downloaded

C4_Witness ==
  \E r \in Runs : /\ run[r].pc = "done" /\ run[r].downloaded
                  /\ run[r].progressOf = 100 /\ exportProgress = 100

LoopPcs == {"loop", "wFrame"}

\* C5 amended: the four refs are read once, when the frame loop begins (after
\* preload, fetch and decode); the values read then do not change while the
\* loop runs, and every frame is rendered with them.
C5_SnapshotStep ==
  \A r \in Runs :
    /\ (run[r].pc = "decode" /\ run'[r].pc = "loop") => run'[r].current = refs
    /\ (run[r].pc \in LoopPcs /\ run'[r].pc \in LoopPcs) =>
         run'[r].current = run[r].current

Pos(l, e) == IF \E j \in 1..Len(l) : l[j] = e
               THEN CHOOSE j \in 1..Len(l) : l[j] = e
               ELSE 0
\* e is in l, and d is in l before it.
After(l, e, d) == Pos(l, e) > 0 => (Pos(l, d) > 0 /\ Pos(l, d) < Pos(l, e))

\* C6: within one renderOffline call, frame i+1 is drawn and written only
\* after the write of frame i settled; audio.mp3 is written only after every
\* frame write settled; exec is called only after the audio write settled;
\* output.mp4 is read only after exec settled; and no request is issued while
\* another one of the call is pending.
C6_EncoderCallsInOrder ==
  \A r \in Runs :
    LET l == run[r].log IN
    /\ \A i \in 1..(totalFrames - 1) :
         /\ After(l, Ev("render", "frame", i), Ev("settled", "writeFrame", i - 1))
         /\ After(l, Ev("issued", "writeFrame", i), Ev("settled", "writeFrame", i - 1))
    /\ \A i \in 0..(totalFrames - 1) :
         After(l, Ev("issued", "writeAudio", totalFrames), Ev("settled", "writeFrame", i))
    /\ After(l, Ev("issued", "exec", totalFrames), Ev("settled", "writeAudio", totalFrames))
    /\ After(l, Ev("issued", "readFile", totalFrames), Ev("settled", "exec", totalFrames))
    /\ \A j \in 1..(Len(l) - 1) :
         l[j].ev = "issued" => l[j + 1] = Ev("settled", l[j].op, l[j].i)

C6_Witness ==
  \E r \in Runs :
    /\ run[r].pc = "delFrames"
    /\ Pos(run[r].log, Ev("settled", "readFile", totalFrames)) = 3 * totalFrames + 6

\* C7 as stated: a decode failure fails the job before any frame is drawn or
\* any encoder request is made, triggers no download, and what the user is
\* told tells a decode failure apart from every other failure.
C7_DecodeFailureIdentified ==
  \A r \in Runs :
    run[r].err = "decode" =>
      /\ run[r].pc = "failed"
      /\ run[r].rendered = 0 /\ run[r].log = <<>>
      /\ run[r].encodeResult = -1
      /\ ~run[r].downloaded
      /\ \A q \in Runs :
           (run[q].pc = "failed" /\ run[q].err # "decode") =>
             run[q].alerted # run[r].alerted

\* C7 amended: as above, but the user is told of the failure by the one alert
\* every failing export shows.
C7_DecodeFailureFatal ==
  \A r \in Runs :
    run[r].err = "decode" =>
      /\ run[r].pc = "failed"
      /\ run[r].rendered = 0 /\ run[r].log = <<>>
      /\ run[r].encodeResult = -1
      /\ ~run[r].downloaded
      /\ run[r].alerted = GenericAlert

C7_Witness ==
  \E r \in Runs : /\ run[r].err = "decode" /\ run[r].pc = "failed"
                  /\ ~isExporting /\ exportStage = "idle"

\* C8: when output.mp4 is read back empty the call fails with the
\* "produced an empty output" error, the user is alerted, and no download is
\* triggered.
C8_EmptyOutputFails ==
  \A r \in Runs :
    run[r].outputData = "empty" =>
      /\ run[r].pc = "failed"
      /\ run[r].err = EmptyOutputError
      /\ run[r].alerted = GenericAlert
      /\ ~run[r].downloaded

C8_Witness ==
  \E r \in Runs : /\ run[r].outputData = "empty" /\ run[r].encodeResult = 0
                  /\ run[r].pc = "failed" /\ ~isExporting

\* C9: a call whose exec returned a non-zero result never triggers a
\* download and never completes.
C9_EncodeFailureFatal ==
  \A r \in Runs :
    run[r].encodeResult > 0 =>
      /\ ~run[r].downloaded
      /\ run[r].pc \in {"read", "failed"}

\* C10: a call that failed after at least one frame file was written has
\* attempted to delete every frame file it wrote, audio.mp3 and output.mp4.
C10_CleanupOnFailure ==
  \A r \in Runs :
    (run[r].pc = "failed" /\ run[r].frameIndex >= 1) =>
      /\ \A i \in 0..(run[r].frameIndex - 1) : <<"frame", i>> \in run[r].delAttempted
      /\ <<"audio", 0>> \in run[r].delAttempted
      /\ <<"output", 0>> \in run[r].delAttempted

\* C11: a step that makes a renderOffline call fail leaves isExporting false
\* and the stage idle, so that startRecording can run again; and the job is
\* never shown as exporting (isExporting set, or stage capturing / encoding)
\* while no renderOffline call is in flight or waiting for its completion
\* timer.
C11_FailStep ==
  \A r \in Runs : Fails(r) => (isExporting' = FALSE /\ exportStage' = "idle")

C11_Stuck ==
  /\ isExporting \/ exportStage # "idle"
  /\ \A r \in Runs : ~InFlight(r) /\ run[r].pc # "done"

C11_FailureAllowsRetry == [][C11_FailStep]_vars /\ []~C11_Stuck

\* C12: a resource that fails to load during the preload leaves its slot
\* empty, and no renderOffline call fails because of what the preload left
\* behind: the frames are drawn without the resource and the export goes on.
C12_LoadFailureNonFatal ==
  \A r \in Runs :
    /\ run[r].pc \in (ActivePcs \ {"preload"}) => run[r].slot \in {"loaded", "empty"}
    /\ run[r].err # "drawImage"

\* Files a call deletes: every frame file, audio.mp3, output.mp4.
FrameTargets(n) == {<<"frame", i>> : i \in 0..(n - 1)}
AllTargets == FrameTargets(totalFrames) \cup {<<"audio", 0>>, <<"output", 0>>}

\* C13: the cleanup attempts its deletions one after the other whatever the
\* outcome of the earlier ones; a call that completed has attempted all of
\* them and has written progress 100; and no call fails once its cleanup has
\* begun, so a rejected deletion never fails the export.
C13_CleanupNeverEscalates ==
  \A r \in Runs :
    /\ run[r].pc = "delFrames" => run[r].delAttempted = FrameTargets(run[r].delIndex)
    /\ run[r].pc = "delAudio" => run[r].delAttempted = FrameTargets(totalFrames)
    /\ run[r].pc = "delOutput" =>
         run[r].delAttempted = FrameTargets(totalFrames) \cup {<<"audio", 0>>}
    /\ run[r].pc \in {"done", "finished"} =>
         run[r].delAttempted = AllTargets /\ run[r].progressOf = 100
    /\ run[r].pc = "failed" => run[r].delAttempted = {} /\ ~run[r].delFailed

\* The deletion of frame 0 was rejected (the file is still there, no other
\* call has run), the later deletions were attempted, the export completed.
C13_Witness ==
  \E r \in Runs :
    /\ nextRun = 1 /\ run[r].pc = "done" /\ run[r].delFailed
    /\ 0 \in fsFrames /\ ~fsAudio
    /\ run[r].delAttempted = AllTargets
    /\ exportProgress = 100

\* C14: a deletion that resolves removes its file; a call that completed with
\* every deletion resolved has written frames 0 .. totalFrames-1 and deleted
\* exactly those, audio.mp3 and output.mp4; and when no other call has written
\* to the encoder's filesystem, nothing is left in it.
C14_DeleteStep ==
  \A r \in Runs :
    ~run'[r].delFailed =>
      \A t \in run'[r].delAttempted \ run[r].delAttempted :
        /\ t[1] = "frame" => t[2] \notin fsFrames'
        /\ t[1] = "audio" => ~fsAudio'
        /\ t[1] = "output" => fsOutput' = "absent"

C14_Completed ==
  \A r \in Runs :
    (run[r].pc \in {"done", "finished"} /\ ~run[r].delFailed) =>
      /\ run[r].frameIndex = totalFrames
      /\ {t \in run[r].delAttempted : t[1] = "frame"} = FrameTargets(run[r].frameIndex)
      /\ <<"audio", 0>> \in run[r].delAttempted
      /\ <<"output", 0>> \in run[r].delAttempted
      /\ (\A q \in Runs \ {r} : run[q].frameIndex = 0) =>
           (fsFrames = {} /\ ~fsAudio /\ fsOutput = "absent")

C14_ArtifactsDeleted == [][C14_DeleteStep]_vars /\ []C14_Completed

C14_Witness ==
  \E r \in Runs :
    /\ run[r].pc = "done" /\ ~run[r].delFailed /\ run[r].downloaded
    /\ Cardinality(run[r].delAttempted) = totalFrames + 2
    /\ fsFrames = {} /\ ~fsAudio /\ fsOutput = "absent"

\* ======================================================================
\* Properties of the frame pipeline
\* ======================================================================

\* Position of a stage in the order clear, background, preset, particles,
\* album art, pixelate, text, scanlines, VHS/chromatic/glitch, CCTV, bloom,
\* film grain, strobe, vignette, hue shift, letterbox.
StageOrder == <<{"clear"}, {"background"}, {"preset"}, {"particles"},
                {"albumArt"}, {"pixelate"}, {"text"}, {"scanlines"},
                {"vhs", "glitch"}, {"cctv"}, {"bloom"}, {"filmGrain"},
                {"strobe"}, {"vignette"}, {"hueShift"}, {"letterbox"}>>
StageRank(st) == CHOOSE k \in 1..Len(StageOrder) : st \in StageOrder[k]
Drawn(st) == \E j \in 1..Len(frame.ops) : frame.ops[j][1] = st

\* C15: in a frame drawn by either path, every operation belongs to a stage
\* of the list, and no operation of a stage comes before an operation of a
\* stage that precedes it in the list.
C15_StagesInOrder ==
  frame.path # "none" =>
    /\ \A j \in 1..Len(frame.ops) :
         \E k \in 1..Len(StageOrder) : frame.ops[j][1] \in StageOrder[k]
    /\ \A j, k \in 1..Len(frame.ops) :
         j < k => StageRank(frame.ops[j][1]) <= StageRank(frame.ops[k][1])

C15_Witness ==
  /\ frame.path = "offline"
  /\ frame.inp.effects = {"letterbox", "pixelate"}
  /\ Drawn("background") /\ Drawn("albumArt") /\ Drawn("pixelate")
  /\ Drawn("text") /\ Drawn("letterbox")

\* C16: with no toggle on, a frame of either path holds operations of clear,
\* background, preset, particles, album art and text only, and no shake
\* translation, whatever the bass and the intensities.
C16_NoEffectsNoPostProcessing ==
  (frame.path # "none" /\ frame.inp.effects = {}) =>
    \A j \in 1..Len(frame.ops) :
      /\ frame.ops[j][1] \in {"clear", "background", "preset", "particles",
                              "albumArt", "text"}
      /\ frame.ops[j][2] # "shakeTranslate"

C16_Witness ==
  /\ frame.path = "live" /\ frame.inp.effects = {}
  /\ frame.inp.bass = 255 /\ frame.inp.intensities["strobe"] = 10
  /\ frame.inp.bg /\ Drawn("text")

\* C17: changing the intensity of an effect whose toggle is off changes no
\* operation of the frame and no argument of one.
C17_DisabledIntensityIgnored ==
  frame.path # "none" =>
    \A e \in EffectNames \ frame.inp.effects, v \in Levels :
      FrameOps(frame.path, [frame.inp EXCEPT !.intensities[e] = v]) = frame.ops

\* What the two paths are allowed to differ in: the CCTV stamp, and the stride
\* of the film-grain pass.
Core(ops) ==
  LET kept == SelectSeq(ops, LAMBDA o : o[2] # "stamp")
  IN [j \in 1..Len(kept) |->
        IF kept[j][1] = "filmGrain"
          THEN Op("filmGrain", kept[j][2], <<kept[j][3][1]>>)
          ELSE kept[j]]

\* C18: on the same inputs and the same random draws, renderLoop and the frame
\* body of renderOffline execute the same operations with the same arguments,
\* the CCTV stamp and the film-grain stride apart.
C18_SameCore ==
  frame.path # "none" =>
    Core(RenderLoopOps(frame.inp)) = Core(RenderOfflineOps(frame.inp))

\* ======================================================================
\* Properties of the text layers
\* ======================================================================

\* The text operations of the frame last drawn.
TextOps == SelectSeq(frame.ops, LAMBDA o : o[1] = "text")

\* A frame is drawn from the list the ref holds at that moment.
C19_DrawStep == frame' # frame => frame'.inp.texts = textLayersRef

\* C19: the layers of the collection are in the order in which they were
\* added; the ref the frames are drawn from holds the collection; and a frame
\* draws every layer of its list once, in list order, so a later-indexed layer
\* is drawn after every earlier-indexed one.
C19_Ordered ==
  /\ \A j, k \in 1..Len(textLayers) : j < k => textLayers[j].n < textLayers[k].n
  /\ textLayersRef = textLayers
  /\ frame.path # "none" =>
       /\ Len(TextOps) = Len(frame.inp.texts)
       /\ \A j \in 1..Len(TextOps) : TextOps[j][3][1] = frame.inp.texts[j]

C20_FrameCount ==
  analysis.pc = "analysed" =>
    /\ analysis.count * analysis.buf.sampleRate >= analysis.buf.length * analysis.fps
    /\ (analysis.count - 1) * analysis.buf.sampleRate < analysis.buf.length * analysis.fps
    /\ (analysis.buf.length = 10 * analysis.buf.sampleRate /\ analysis.fps = 30)
         => analysis.count = 300
    /\ analysis.total = analysis.count
    /\ analysis.frameIndex <= analysis.count
    /\ ~analysis.outside
    /\ analysis.frameIndex > 0 =>
         /\ Len(analysis.dataArray) = 1024
         /\ \A b \in 1..1024 : analysis.dataArray[b] \in 0..255

\* The 10 s track: all 300 frames were read, the last one is not silent.
C20_Witness ==
  /\ analysis.pc = "analysed" /\ analysis.buf.length = 441000
  /\ analysis.fps = 30 /\ analysis.count = 300 /\ analysis.frameIndex = 300
  /\ \E b \in 1..1024 : analysis.dataArray[b] > 0

\* Sum of |x| * 512 over a set of sample indices.
RECURSIVE SumOver(_, _)
SumOver(buf, S) ==
  IF S = {} THEN 0
  ELSE LET i == CHOOSE j \in S : TRUE
       IN AbsSample(buf, i) + SumOver(buf, S \ {i})

\* The frame last read.
LastFrame == analysis.frameIndex - 1
FrameStart(f) == f * (analysis.buf.sampleRate \div analysis.fps)

\* C21 as stated: the window of frame f is its sampleRate / fps samples, cut
\* into 1024 equal sub-bins (sub-bin b runs from b * window / 1024 to
\* (b + 1) * window / 1024); bin b is min(255, floor(mean * 512)) over the
\* samples of sub-bin b.
C21_OwnWindow(b) ==
  LET w == analysis.buf.sampleRate \div analysis.fps
      lo == FrameStart(LastFrame) + ((b - 1) * w) \div 1024
      hi == FrameStart(LastFrame) + (b * w) \div 1024
  IN {i \in lo..(hi - 1) : i < analysis.buf.length}

C21_BinsOfFrameWindow ==
  (analysis.pc = "analysed" /\ analysis.frameIndex > 0) =>
    \A b \in 1..1024 :
      analysis.dataArray[b] =
        IF C21_OwnWindow(b) = {} THEN 0
        ELSE Min2(255, SumOver(analysis.buf, C21_OwnWindow(b))
                         \div Cardinality(C21_OwnWindow(b)))

\* C21 amended: the window of frame f starts at f * floor(sampleRate / fps)
\* and is fftSize = 2048 samples long, cut short at the end of the track; it
\* is cut into sub-bins of max(1, floor(window / 1024)) samples; bin b is
\* min(255, floor(sum(|sample|) / binSize * 512)) over the samples of sub-bin
\* b that lie in the window, 0 when there are none.
C21_Window == Max2(0, Min2(2048, analysis.buf.length - FrameStart(LastFrame)))
C21_BinSize == Max2(1, C21_Window \div 1024)
C21_SubBin(b) ==
  {i \in (FrameStart(LastFrame) + (b - 1) * C21_BinSize)
           ..(FrameStart(LastFrame) + b * C21_BinSize - 1) :
      i < FrameStart(LastFrame) + C21_Window}

C21_BinsOfFftWindow ==
  (analysis.pc = "analysed" /\ analysis.frameIndex > 0) =>
    \A b \in 1..1024 :
      analysis.dataArray[b] =
        Min2(255, SumOver(analysis.buf, C21_SubBin(b)) \div C21_BinSize)

\* Frame 1 of a loud track of 4000 samples: its window runs past the 1470
\* samples of the frame, and its late bins hold samples of frame 2.
C21_Witness ==
  /\ analysis.pc = "analysed" /\ analysis.frameIndex = 2
  /\ analysis.buf.length = 4000 /\ analysis.fps = 30 /\ analysis.buf.amp = 100
  /\ analysis.dataArray[1000] > 0

\* Sum of the bins with indices in S.
RECURSIVE SumOfBins(_, _)
SumOfBins(dataArray, S) ==
  IF S = {} THEN 0
  ELSE LET b == CHOOSE c \in S : TRUE
       IN dataArray[b] + SumOfBins(dataArray, S \ {b})

\* C22: on both paths bass is the mean of bins 0..19 (normBass is their sum
\* over 20 * 255); with every bin in 0..255 normBass lies in [0, 1] and
\* pulse = 1 + normBass * 0.15 lies in [1, 1.15]; the bassLevel of the
\* offline time-domain approximation equals normBass.
C22_BassOf(dataArray, normBass, pulse) ==
  /\ \A b \in 1..1024 : dataArray[b] \in 0..255
  /\ normBass = SumOfBins(dataArray, 1..20)
  /\ normBass >= 0 /\ normBass <= 5100
  /\ pulse * 20 = 20 * 102000 + 3 * 20 * normBass
  /\ pulse >= 102000 /\ pulse * 100 <= 115 * 102000

C22_BassNormalised ==
  /\ analysis.frameIndex > 0 =>
       /\ C22_BassOf(analysis.dataArray, analysis.normBass, analysis.pulse)
       /\ analysis.bassLevel = analysis.normBass
  /\ analysis.live.dataArray # <<>> =>
       C22_BassOf(analysis.live.dataArray, analysis.live.normBass,
                  analysis.live.pulse)

\* A saturated offline frame (normBass 1, pulse 1.15) beside a live frame
\* whose low bins are silent and whose high bins are full.
C22_Witness ==
  /\ analysis.frameIndex > 0
  /\ analysis.normBass = 5100 /\ analysis.pulse * 100 = 115 * 102000
  /\ analysis.live.dataArray # <<>>
  /\ analysis.live.dataArray[21] = 255 /\ analysis.live.normBass = 0

\* The pixelate operations of the frame drawn.
C23_PixelateOps == {j \in 1..Len(frame.ops) : frame.ops[j][1] = "pixelate"}

\* C23: with pixelate on, pixelSize = max(4, floor(16 * intensity)) and the
\* downscaled grid is floor(width / pixelSize) x floor(height / pixelSize);
\* for an intensity in [0, 1] pixelSize is within 4..16; intensity 0.3 on
\* 1920 x 1080 gives pixelSize 4 and a 480 x 270 grid; the step comes after
\* the album-art stage and before the text stage, on both paths.
C23_PixelGrid ==
  frame.path # "none" =>
    /\ (C23_PixelateOps # {}) = On(frame.inp, "pixelate")
    /\ \A j \in C23_PixelateOps :
         LET k == Intensity(frame.inp, "pixelate")
             pixelSize == frame.ops[j][3][1]
             smallW == frame.ops[j][3][2]
             smallH == frame.ops[j][3][3]
         IN /\ pixelSize \in 4..16
            /\ \/ pixelSize = 4 /\ 16 * k < 5 * 10
               \/ pixelSize * 10 <= 16 * k /\ 16 * k < (pixelSize + 1) * 10
            /\ smallW * pixelSize <= 1920 /\ 1920 < (smallW + 1) * pixelSize
            /\ smallH * pixelSize <= 1080 /\ 1080 < (smallH + 1) * pixelSize
            /\ k = 3 => <<pixelSize, smallW, smallH>> = <<4, 480, 270>>
            /\ \A i \in 1..Len(frame.ops) :
                 /\ frame.ops[i][1] = "albumArt" => i < j
                 /\ frame.ops[i][1] = "text" => j < i

\* An exported frame with pixelate at 0.3, the album inlay and the text.
C23_Witness ==
  /\ frame.path = "offline"
  /\ On(frame.inp, "pixelate") /\ Intensity(frame.inp, "pixelate") = 3
  /\ Drawn("albumArt") /\ Drawn("text")
  /\ \E j \in C23_PixelateOps : frame.ops[j][3] = <<4, 480, 270>>

\* The frame whose progress report was the last one before frame i.
C24_LastReported(i) ==
  CHOOSE j \in 0..(i - 1) :
    /\ j % ProgressEvery = 0
    /\ \A k \in (j + 1)..(i - 1) : k % ProgressEvery # 0

\* C24: whenever the stage is capturing, exportProgress is within 15..70 and,
\* once a frame was reported, equals 15 + round(frameIndex / totalFrames * 55)
\* for the last reported frame; whenever the stage is encoding and no output
\* was handed to the download yet, exportProgress is within 70..95.
C24_ProgressBands ==
  /\ exportStage = "capturing" =>
       /\ exportProgress \in 15..70
       /\ \A r \in Runs :
            (run[r].pc \in {"loop", "wFrame"} /\ run[r].frameIndex > 0) =>
              exportProgress =
                FrameProgress(C24_LastReported(run[r].frameIndex), totalFrames)
  /\ (exportStage = "encoding" /\ \A r \in Runs : ~run[r].downloaded) =>
       exportProgress \in 70..95

\* Number of layers a step changes or takes away.
C25_Affected ==
  IF Len(textLayers') = Len(textLayers)
    THEN Cardinality({j \in 1..Len(textLayers) : textLayers'[j] # textLayers[j]})
    ELSE Len(textLayers) - Len(textLayers')

C25_Unique ==
  \A i, j \in 1..Len(textLayers) :
    textLayers[i].id = textLayers[j].id => i = j

C25_Step ==
  (Len(textLayers') <= Len(textLayers) /\ textLayers' # textLayers) =>
    C25_Affected <= 1

\* C25: the ids of the text layers are pairwise distinct after the defaults
\* and any sequence of addTextLayer, updateTextLayer and removeTextLayer, and
\* an update or a removal changes or removes at most one layer.
C25_UniqueIds == []C25_Unique /\ [][C25_Step]_vars

\* C26: every export that was started eventually is done or failed, given
\* that every call it awaits returns or throws; no wait for the background
\* media (load or seek) blocks for ever.
C26_ExportEnds ==
  \A r \in Runs :
    (run[r].pc # "none") ~> (run[r].pc \in {"done", "finished", "failed"})

\* ======================================================================
\* Properties of the generation job queue
\* ======================================================================

\* The processQueue calls that are inside their while loop.
ActiveLoops == {l \in Jobs : loops[l].pc \notin {"none", "ended"}}
Running == {j \in Jobs : jobs[j].status = "running"}

\* C27: under any interleaving of generateMusicViaAPI calls and job
\* completions at most one job has status 'running' (among the jobs in
\* activeJobs, and among those deleted from it as well), and at most one
\* processQueue loop is active; the running job is the one that loop
\* processes.
C27_OneJobAtATime ==
  /\ Cardinality(Running) <= 1
  /\ Cardinality(ActiveLoops) <= 1
  /\ isProcessingQueue = (ActiveLoops # {})
  /\ \A j \in Running : \E l \in ActiveLoops : loops[l].job = j

\* A job is running, two more were submitted meanwhile and wait in the queue;
\* their processQueue calls returned at the guard.
C27_Witness ==
  /\ jobs[1].status = "running"
  /\ jobs[2].status = "queued" /\ jobs[3].status = "queued"
  /\ jobQueue = <<1, 2, 3>>
  /\ loops[1].pc = "python" /\ loops[2].pc = "none" /\ loops[3].pc = "none"

Terminal == {"succeeded", "failed"}

\* C28: every job submitted through generateMusicViaAPI eventually has
\* status 'succeeded' or 'failed' and is out of jobQueue, given that every
\* Python process exits; also a job submitted while processQueue finishes
\* its last job, and also the jobs queued behind a job that failed.
C28_EveryJobFinishes ==
  \A j \in Jobs :
    (jobs[j].status # "none") ~>
      (jobs[j].status \in Terminal /\ \A i \in 1..Len(jobQueue) : jobQueue[i] # j)

\* Position of job j in the order processGeneration was called, 0 if it was
\* not called for j.
StartedAt(j) ==
  IF \E i \in 1..Len(started) : started[i] = j
    THEN CHOOSE i \in 1..Len(started) : started[i] = j
    ELSE 0

C29_StatusStep ==
  \A j \in Jobs :
    jobs'[j].status # jobs[j].status =>
      \/ jobs[j].status = "none" /\ jobs'[j].status = "queued"
      \/ jobs[j].status = "queued" /\ jobs'[j].status = "running"
      \* created 'queued' and set 'running' in the same run of the handler
      \/ /\ jobs[j].status = "none" /\ jobs'[j].status = "running"
         /\ ~isProcessingQueue
      \/ jobs[j].status = "running" /\ jobs'[j].status \in Terminal

C29_InOrder ==
  /\ \A i, k \in 1..Len(started) : started[i] = started[k] => i = k
  /\ \A a, b \in Jobs :
       (a < b /\ jobs[b].status \notin {"none", "queued"}) =>
         jobs[a].status \notin {"none", "queued"}

\* C29: jobs are processed in the order they were submitted and each at most
\* once: of two jobs the one submitted first leaves 'queued' first; a status
\* only moves queued -> running -> succeeded or failed.
C29_FifoOnce == []C29_InOrder /\ [][C29_StatusStep]_vars

\* C30: for a job that was submitted and is not finished getJobStatus
\* returns 'queued' or 'running', never 'failed', under any interleaving with
\* cleanupJob and cleanupOldJobs; it returns 'failed' with 'Job not found'
\* only for an id never submitted or a job already terminal.
C30_TrueStatus ==
  answer.id # 0 =>
    /\ answer.job \in {"queued", "running"} => answer.status = answer.job
    /\ (answer.status = "failed" /\ answer.error = "Job not found") =>
         answer.job \in {"none", "succeeded", "failed"}

====
